---- MODULE Spec2Model ----
(***************************************************************************)
(* Model of the two containers of dorosch/DataStructures.                  *)
(*                                                                         *)
(* stack/src/lib.rs: Stack<T> (a Vec<T> with push / pop / peek /           *)
(* is_empty / iter and a Deref to the Vec) and StackIterator<'a, T>.       *)
(*                                                                         *)
(* A Vec<T> is a TLA+ sequence; the Rust 0-based index k is element k + 1  *)
(* of the sequence.  Option<T> is a sequence of length 0 (None) or 1       *)
(* (Some(v)).  A StackIterator holds a shared borrow of the stack for its  *)
(* whole life ('a), so push and pop (which take &mut self) are possible    *)
(* only while no iterator is alive.                                        *)
(*                                                                         *)
(* linked-list/src/lib.rs: LinkedList<T> (head: Option<Box<Node<T>>>) with *)
(* is_empty / len / prepend / append and Display.  Every Box<Node<T>> is   *)
(* a cell of the sequence list.nodes; the address of a cell is its         *)
(* position, and an Option<Box<Node<T>>> is an address or Null (None).     *)
(* The loops of len, append and fmt are taken one iteration at a time; a   *)
(* call runs to its end before the next call starts.                       *)
(***************************************************************************)
EXTENDS Integers, Sequences, FiniteSets, TLC

VARIABLES stack, iters, yielded, log, pushes, pops, last, panicked,
          list, pc, current, size, fbuf, steps, calls, llast

\* The variables of the stack, and those of the linked list.
svars == <<stack, iters, yielded, log, pushes, pops, last, panicked>>

lvars == <<list, pc, current, size, fbuf, steps, calls, llast>>

vars == <<stack, iters, yielded, log, pushes, pops, last, panicked,
          list, pc, current, size, fbuf, steps, calls, llast>>

----------------------------------------------------------------------------
(* Bounds of the model. *)

\* The values pushed: the two of the crate's tests (lib.rs:133-134).
Values == {42, 314}

\* Most push calls in one run, hence also the longest stack (the history of
\* pushes is kept, so it is capped).
MaxPushes == 3

\* Most iterators alive at the same time.
MaxIters == 2

\* Most nodes of a linked list (prepend and append calls in one run).
MaxNodes == 3

\* The values put in a linked list: those of the doc example (lib.rs:17-19)
\* and one of two digits from the tests (lib.rs:129).
ListValues == {1, 2, 3, 64}

IterIds == 1..MaxIters

----------------------------------------------------------------------------
(* Option<T> *)

None == <<>>

Some(v) == <<v>>

\* The slot of an iterator that does not exist (not created yet, or dropped).
NoIter == [index |-> -1]

----------------------------------------------------------------------------
(* impl<T> Stack<T> *)

new == [items |-> <<>>]

\* Faulty variants of push: inserting at the head; skipping a value equal to
\* the current top.
pushFront(self, value) == [self EXCEPT !.items = <<value>> \o @]

pushDedup(self, value) ==
  IF Len(self.items) > 0 /\ self.items[Len(self.items)] = value
    THEN self
    ELSE [self EXCEPT !.items = Append(@, value)]

push(self, value) == [self EXCEPT !.items = Append(@, value)]

\* Faulty variants of pop: removing the oldest element; returning the top
\* without removing it; no emptiness check (a stale slot is returned).
popFront(self) ==
  IF Len(self.items) = 0
    THEN [self |-> self, ret |-> None]
    ELSE [self |-> [self EXCEPT !.items = SubSeq(@, 2, Len(@))],
          ret  |-> Some(self.items[1])]

popKeep(self) ==
  IF Len(self.items) = 0
    THEN [self |-> self, ret |-> None]
    ELSE [self |-> self, ret |-> Some(self.items[Len(self.items)])]

popNoCheck(self) ==
  IF Len(self.items) = 0
    THEN [self |-> self, ret |-> Some(CHOOSE v \in Values : TRUE)]
    ELSE [self |-> [self EXCEPT !.items = SubSeq(@, 1, Len(@) - 1)],
          ret  |-> Some(self.items[Len(self.items)])]

\* Faulty variant of pop: Vec::swap_remove(0), which gives the oldest element
\* and moves the newest into its place.
popSwapRemove(self) ==
  IF Len(self.items) = 0
    THEN [self |-> self, ret |-> None]
    ELSE [self |-> [self EXCEPT !.items =
                      IF Len(@) = 1 THEN <<>>
                      ELSE <<@[Len(@)]>> \o SubSeq(@, 2, Len(@) - 1)],
          ret  |-> Some(self.items[1])]

\* Vec::pop: the stack after the call and the value returned.
pop(self) ==
  IF Len(self.items) = 0
    THEN [self |-> self, ret |-> None]
    ELSE [self |-> [self EXCEPT !.items = SubSeq(@, 1, Len(@) - 1)],
          ret  |-> Some(self.items[Len(self.items)])]

\* Faulty variant of peek: Vec::first instead of Vec::last.
peekFirst(self) ==
  IF Len(self.items) = 0 THEN None ELSE Some(self.items[1])

\* Vec::last
peek(self) ==
  IF Len(self.items) = 0 THEN None ELSE Some(self.items[Len(self.items)])

\* Faulty variant of is_empty: the test negated.
is_emptyNegated(self) == Len(self.items) # 0

is_empty(self) == Len(self.items) = 0

deref(self) == self.items

\* stack.len() resolves through Deref to Vec::len.
len(self) == Len(deref(self))

iter(self) == [items |-> self.items, index |-> Len(self.items)]

----------------------------------------------------------------------------
(* impl Iterator for StackIterator *)

\* Faulty variants of next: walking bottom-to-top; indexing before the
\* decrement.
nextForward(it) ==
  IF it.index > 0
    THEN [it    |-> [it EXCEPT !.index = it.index - 1],
          ret   |-> Some(it.items[Len(it.items) - it.index + 1]),
          panic |-> FALSE]
    ELSE [it |-> it, ret |-> None, panic |-> FALSE]

nextPostDec(it) ==
  IF it.index > 0
    THEN LET j == it.index
             inBounds == j >= 0 /\ j < Len(it.items)
         IN  [it    |-> [it EXCEPT !.index = j - 1],
              ret   |-> IF inBounds THEN Some(it.items[j + 1]) ELSE None,
              panic |-> ~inBounds]
    ELSE [it |-> it, ret |-> None, panic |-> FALSE]

\* Faulty variant of next: no index > 0 test, so that at index 0 the usize
\* subtraction wraps around to the top of the range (2147483647, the largest
\* integer TLC holds, stands for usize::MAX).
nextUnguarded(it) ==
  LET j == IF it.index = 0 THEN 2147483647 ELSE it.index - 1
      inBounds == j >= 0 /\ j < Len(it.items)
  IN  [it    |-> [it EXCEPT !.index = j],
       ret   |-> IF inBounds THEN Some(it.items[j + 1]) ELSE None,
       panic |-> ~inBounds]

\* next(): the iterator after the call, the value returned, and whether the
\* access self.items[self.index] was out of bounds (a panic in Rust).
next(it) ==
  IF it.index > 0
    THEN LET j == it.index - 1
             inBounds == j >= 0 /\ j < Len(it.items)
         IN  [it    |-> [it EXCEPT !.index = j],
              ret   |-> IF inBounds THEN Some(it.items[j + 1]) ELSE None,
              panic |-> ~inBounds]
    ELSE [it |-> it, ret |-> None, panic |-> FALSE]

\* Faulty variant: one cursor shared by all the iterators of the stack.
advanceShared(its, i) ==
  [k \in DOMAIN its |->
     IF its[k].index >= 0 THEN next(its[k]).it ELSE its[k]]

\* The iterators after a call of next() on iterator i: only i is touched.
advance(its, i) == [its EXCEPT ![i] = next(its[i]).it]

----------------------------------------------------------------------------
(* impl<T: Display> LinkedList<T> *)

\* Option<Box<Node<T>>>::None
Null == 0

list_new == [head |-> Null, nodes |-> <<>>]

list_is_empty(self) == self.head = Null

\* Box::new(Node { value, next }): the cells with the new one, whose address
\* is the next free position.
alloc(cells, value, nxt) == Append(cells, [value |-> value, next |-> nxt])

prepend(self, value) ==
  [head  |-> Len(self.nodes) + 1,
   nodes |-> alloc(self.nodes, value, self.head)]

\* Faulty variant of the loop body: the new node points back at the head, a
\* circular list.
link_tailCircular(self, cur, value) ==
  [head  |-> self.head,
   nodes |-> [alloc(self.nodes, value, self.head) EXCEPT
                ![cur].next = Len(self.nodes) + 1]]

\* The body of append's loop at node cur with node.next None: the new node
\* is hung on node.next.
link_tail(self, cur, value) ==
  [head  |-> self.head,
   nodes |-> [alloc(self.nodes, value, Null) EXCEPT
                ![cur].next = Len(self.nodes) + 1]]

\* Faulty variant of append's loop: no walk to the tail, the new node goes
\* right behind the first node.
append_stepNoWalk(self, cur, value) ==
  IF cur = Null
    THEN [self |-> self, current |-> cur, done |-> TRUE]
    ELSE [self |-> [head  |-> self.head,
                    nodes |-> [alloc(self.nodes, value, self.nodes[cur].next)
                                 EXCEPT ![cur].next = Len(self.nodes) + 1]],
          current |-> cur, done |-> TRUE]

\* One test-and-iteration of append's loop: the list and the loop variable
\* after it, and whether the loop has ended.
append_step(self, cur, value) ==
  IF cur = Null
    THEN [self |-> self, current |-> cur, done |-> TRUE]
    ELSE IF self.nodes[cur].next = Null
      THEN [self |-> link_tail(self, cur, value), current |-> cur,
            done |-> TRUE]
      ELSE [self |-> self, current |-> self.nodes[cur].next, done |-> FALSE]

\* Faulty variant of len's loop: it stops at the node whose next is None
\* without counting it.
len_stepSkipTail(self, cur, sz) ==
  IF cur = Null \/ self.nodes[cur].next = Null
    THEN [size |-> sz, current |-> cur, done |-> TRUE]
    ELSE [size |-> sz + 1, current |-> self.nodes[cur].next, done |-> FALSE]

\* One test-and-iteration of len's loop.
len_step(self, cur, sz) ==
  IF cur = Null
    THEN [size |-> sz, current |-> cur, done |-> TRUE]
    ELSE [size |-> sz + 1, current |-> self.nodes[cur].next, done |-> FALSE]

\* Display for an i32 that is not negative: its decimal digits.
digit(d) == <<"0", "1", "2", "3", "4", "5", "6", "7", "8", "9">>[d + 1]

RECURSIVE to_text(_)
to_text(v) ==
  IF v < 10 THEN <<digit(v)>> ELSE to_text(v \div 10) \o <<digit(v % 10)>>

\* Faulty variant of fmt's loop: a comma and a space after every element.
fmt_stepSeparated(self, cur, f) ==
  IF cur = Null
    THEN [f |-> f \o <<"]">>, current |-> cur, done |-> TRUE]
    ELSE [f |-> f \o to_text(self.nodes[cur].value) \o <<",", " ">>,
          current |-> self.nodes[cur].next, done |-> FALSE]

\* One test-and-iteration of fmt's loop, the closing write!(f, "]") when the
\* loop ends included.  The output is a sequence of characters.
fmt_step(self, cur, f) ==
  IF cur = Null
    THEN [f |-> f \o <<"]">>, current |-> cur, done |-> TRUE]
    ELSE [f |-> f \o to_text(self.nodes[cur].value),
          current |-> self.nodes[cur].next, done |-> FALSE]

----------------------------------------------------------------------------
(* History kept beside the program state, for stating the properties.      *)
(*   log     : one entry per push call, in call order, with whether the    *)
(*             value pushed by that call has been popped since;            *)
(*   pushes  : number of push calls; pops: number of pops that gave Some;  *)
(*   yielded : per iterator, the values its next() calls have returned and *)
(*             whether a call has returned None;                           *)
(*   last    : the last call made: its name, argument, result, the stack   *)
(*             before it, and for a pop what the history says the top was. *)

\* Positions of log whose value has not been popped.
liveIdx(lg) == {k \in 1..Len(lg) : lg[k].live}

maxOf(S) == CHOOSE m \in S : \A k \in S : k <= m

\* The most recently pushed value that has not been popped, by the history.
logTop(lg) ==
  IF liveIdx(lg) = {} THEN None ELSE Some(lg[maxOf(liveIdx(lg))].val)

\* The history after a pop that returned a value: the latest live entry goes.
logPop(lg) ==
  IF liveIdx(lg) = {} THEN lg
  ELSE [lg EXCEPT ![maxOf(liveIdx(lg))].live = FALSE]

\* The values pushed and not popped since, oldest first.
RECURSIVE logLive(_)
logLive(lg) ==
  IF lg = <<>> THEN <<>>
  ELSE LET h == lg[Len(lg)]
           r == logLive(SubSeq(lg, 1, Len(lg) - 1))
       IN  IF h.live THEN Append(r, h.val) ELSE r

NoCall == [op |-> "new", id |-> 0, arg |-> None, ret |-> None, pre |-> new,
           top |-> None, after |-> None]

call(op, id, arg, ret, pre) ==
  [op |-> op, id |-> id, arg |-> arg, ret |-> ret, pre |-> pre,
   top |-> None, after |-> None]

NoIters == \A i \in IterIds : iters[i] = NoIter

\* For the linked list: calls counts the prepend and append calls made,
\* steps the loop tests made by the call that is running, and llast is the
\* last call made, with its argument, its result and the list before it
\* (its name ends in -running until it returns).
\* The result is kept by kind: that of len, of is_empty, of fmt.
lcall(op, arg, pre) ==
  [op |-> op, arg |-> arg, pre |-> pre,
   retLen |-> None, retEmpty |-> None, retText |-> None]

\* The addresses of the chain from cur, following next, at most fuel of them.
RECURSIVE chain(_, _, _)
chain(self, cur, fuel) ==
  IF cur = Null \/ fuel = 0 THEN <<>>
  ELSE <<cur>> \o chain(self, self.nodes[cur].next, fuel - 1)

\* The chain from the head; one address more than there are nodes shows a
\* cycle.
chainOf(self) == chain(self, self.head, Len(self.nodes) + 1)

\* The values of the list from head to tail.
elems(self) == [k \in 1..Len(chainOf(self)) |-> self.nodes[chainOf(self)[k]].value]

ListInit ==
  /\ list = list_new
  /\ pc = "idle"
  /\ current = Null
  /\ size = 0
  /\ fbuf = <<>>
  /\ steps = 0
  /\ calls = 0
  /\ llast = lcall("new", None, list_new)

----------------------------------------------------------------------------
Init ==
  /\ stack = new
  /\ iters = [i \in IterIds |-> NoIter]
  /\ yielded = [i \in IterIds |-> [out |-> <<>>, done |-> FALSE]]
  /\ log = <<>>
  /\ pushes = 0
  /\ pops = 0
  /\ last = NoCall
  /\ panicked = FALSE
  /\ ListInit

Push(v) ==
  /\ ~panicked
  /\ UNCHANGED lvars
  /\ NoIters
  /\ pushes < MaxPushes
  /\ stack' = push(stack, v)
  /\ log' = Append(log, [val |-> v, live |-> TRUE])
  /\ pushes' = pushes + 1
  /\ last' = call("push", 0, Some(v), None, stack)
  /\ UNCHANGED <<iters, yielded, pops, panicked>>

\* A pop records the call before it, when that call was a push or a peek:
\* its name, argument, result and the stack before it.
Pop ==
  /\ ~panicked
  /\ UNCHANGED lvars
  /\ NoIters
  /\ LET r == pop(stack)
     IN  /\ stack' = r.self
         /\ log' = IF r.ret = None THEN log ELSE logPop(log)
         /\ pops' = IF r.ret = None THEN pops ELSE pops + 1
         /\ last' = [call("pop", 0, None, r.ret, stack) EXCEPT
                       !.top = logTop(log),
                       !.after = IF last.op \in {"push", "peek"}
                                   THEN Some([op  |-> last.op,
                                              arg |-> last.arg,
                                              ret |-> last.ret,
                                              pre |-> last.pre])
                                   ELSE None]
  /\ UNCHANGED <<iters, yielded, pushes, panicked>>

\* A peek or is_empty that directly follows a call of the same method
\* records that call's result.
sameBefore(op) == IF last.op = op THEN Some(last.ret) ELSE None

\* Faulty variant: peek written with pop, so the top is removed.
PeekPops ==
  /\ ~panicked
  /\ UNCHANGED lvars
  /\ last' = [call("peek", 0, None, pop(stack).ret, stack) EXCEPT
                !.after = sameBefore("peek")]
  /\ stack' = pop(stack).self
  /\ UNCHANGED <<iters, yielded, log, pushes, pops, panicked>>

Peek ==
  /\ ~panicked
  /\ UNCHANGED lvars
  /\ last' = [call("peek", 0, None, peek(stack), stack) EXCEPT
                !.after = sameBefore("peek")]
  /\ UNCHANGED <<stack, iters, yielded, log, pushes, pops, panicked>>

IsEmpty ==
  /\ ~panicked
  /\ UNCHANGED lvars
  /\ last' = [call("is_empty", 0, None, Some(is_empty(stack)), stack) EXCEPT
                !.after = sameBefore("is_empty")]
  /\ UNCHANGED <<stack, iters, yielded, log, pushes, pops, panicked>>

LenCall ==
  /\ ~panicked
  /\ UNCHANGED lvars
  /\ last' = call("len", 0, None, Some(len(stack)), stack)
  /\ UNCHANGED <<stack, iters, yielded, log, pushes, pops, panicked>>

\* A new iterator takes the lowest free slot (the slot is only its name).
Iter(i) ==
  /\ ~panicked
  /\ UNCHANGED lvars
  /\ iters[i] = NoIter
  /\ \A k \in IterIds : k < i => iters[k] # NoIter
  /\ iters' = [iters EXCEPT ![i] = iter(stack)]
  /\ yielded' = [yielded EXCEPT ![i] = [out |-> <<>>, done |-> FALSE]]
  /\ last' = call("iter", i, None, None, stack)
  /\ UNCHANGED <<stack, log, pushes, pops, panicked>>

IterNext(i) ==
  /\ ~panicked
  /\ UNCHANGED lvars
  /\ iters[i] # NoIter
  /\ LET r == next(iters[i])
     IN  /\ iters' = advance(iters, i)
         /\ panicked' = r.panic
         /\ yielded' = [yielded EXCEPT ![i] =
                          IF r.panic THEN @
                          ELSE IF r.ret = None THEN [@ EXCEPT !.done = TRUE]
                          ELSE [@ EXCEPT !.out = @ \o r.ret]]
         /\ last' = call("next", i, None, r.ret, stack)
  /\ UNCHANGED <<stack, log, pushes, pops>>

\* The iterator goes out of scope: its borrow of the stack ends.
IterDrop(i) ==
  /\ ~panicked
  /\ UNCHANGED lvars
  /\ iters[i] # NoIter
  /\ iters' = [iters EXCEPT ![i] = NoIter]
  /\ yielded' = [yielded EXCEPT ![i] = [out |-> <<>>, done |-> FALSE]]
  /\ last' = call("drop", i, None, None, stack)
  /\ UNCHANGED <<stack, log, pushes, pops, panicked>>

Next ==
  \/ \E v \in Values : Push(v)
  \/ Pop
  \/ Peek
  \/ IsEmpty
  \/ LenCall
  \/ \E i \in IterIds : Iter(i)
  \/ \E i \in IterIds : IterNext(i)
  \/ \E i \in IterIds : IterDrop(i)

Spec == Init /\ [][Next]_vars

----------------------------------------------------------------------------
(* The calls on the linked list. *)

ListIsEmpty ==
  /\ pc = "idle"
  /\ llast' = [lcall("is_empty", None, list) EXCEPT
                 !.retEmpty = Some(list_is_empty(list))]
  /\ UNCHANGED <<list, pc, current, size, fbuf, steps, calls>>
  /\ UNCHANGED svars

ListPrepend(v) ==
  /\ pc = "idle"
  /\ calls < MaxNodes
  /\ list' = prepend(list, v)
  /\ calls' = calls + 1
  /\ llast' = lcall("prepend", Some(v), list)
  /\ UNCHANGED <<pc, current, size, fbuf, steps>>
  /\ UNCHANGED svars

\* append: on an empty list it is prepend and returns; otherwise the loop
\* starts at the head.
ListAppend(v) ==
  /\ pc = "idle"
  /\ calls < MaxNodes
  /\ calls' = calls + 1
  /\ IF list.head = Null
       THEN /\ list' = prepend(list, v)
            /\ llast' = lcall("append", Some(v), list)
            /\ UNCHANGED <<pc, current, steps>>
       ELSE /\ pc' = "append"
            /\ current' = list.head
            /\ steps' = 0
            /\ llast' = lcall("append-running", Some(v), list)
            /\ UNCHANGED list
  /\ UNCHANGED <<size, fbuf>>
  /\ UNCHANGED svars

\* A loop makes at most one test more than there are nodes; a call that
\* needs more never returns.
ListAppendLoop ==
  /\ pc = "append"
  /\ steps <= Len(list.nodes)
  /\ LET r == append_step(list, current, llast.arg[1])
     IN  /\ list' = r.self
         /\ steps' = steps + 1
         /\ IF r.done
              THEN /\ pc' = "idle"
                   /\ current' = Null
                   /\ llast' = [llast EXCEPT !.op = "append"]
              ELSE /\ current' = r.current
                   /\ UNCHANGED <<pc, llast>>
  /\ UNCHANGED <<size, fbuf, calls>>
  /\ UNCHANGED svars

ListLen ==
  /\ pc = "idle"
  /\ pc' = "len"
  /\ size' = 0
  /\ current' = list.head
  /\ steps' = 0
  /\ llast' = lcall("len-running", None, list)
  /\ UNCHANGED <<list, fbuf, calls>>
  /\ UNCHANGED svars

ListLenLoop ==
  /\ pc = "len"
  /\ steps <= Len(list.nodes)
  /\ LET r == len_step(list, current, size)
     IN  /\ steps' = steps + 1
         /\ IF r.done
              THEN /\ pc' = "idle"
                   /\ current' = Null
                   /\ size' = 0
                   /\ llast' = [llast EXCEPT !.op = "len",
                                              !.retLen = Some(r.size)]
              ELSE /\ current' = r.current
                   /\ size' = r.size
                   /\ UNCHANGED <<pc, llast>>
  /\ UNCHANGED <<list, fbuf, calls>>
  /\ UNCHANGED svars

\* fmt: write!(f, "[") and the start of the loop.
ListFmt ==
  /\ pc = "idle"
  /\ pc' = "fmt"
  /\ fbuf' = <<"[">>
  /\ current' = list.head
  /\ steps' = 0
  /\ llast' = lcall("fmt-running", None, list)
  /\ UNCHANGED <<list, size, calls>>
  /\ UNCHANGED svars

ListFmtLoop ==
  /\ pc = "fmt"
  /\ steps <= Len(list.nodes)
  /\ LET r == fmt_step(list, current, fbuf)
     IN  /\ steps' = steps + 1
         /\ IF r.done
              THEN /\ pc' = "idle"
                   /\ current' = Null
                   /\ fbuf' = <<>>
                   /\ llast' = [llast EXCEPT !.op = "fmt",
                                              !.retText = Some(r.f)]
              ELSE /\ current' = r.current
                   /\ fbuf' = r.f
                   /\ UNCHANGED <<pc, llast>>
  /\ UNCHANGED <<list, size, calls>>
  /\ UNCHANGED svars

ListLoop == ListAppendLoop \/ ListLenLoop \/ ListFmtLoop

ListNext ==
  \/ ListIsEmpty
  \/ \E v \in ListValues : ListPrepend(v)
  \/ \E v \in ListValues : ListAppend(v)
  \/ ListAppendLoop
  \/ ListLen
  \/ ListLenLoop
  \/ ListFmt
  \/ ListFmtLoop

\* The code is sequential: a call that has started goes on until it returns.
ListSpec == Init /\ [][ListNext]_vars /\ WF_vars(ListLoop)

----------------------------------------------------------------------------
(* Runs of calls, as the crate's tests and doc example make them. *)

\* push every value of vs, first to last (tests::push).
RECURSIVE pushAll(_, _)
pushAll(self, vs) ==
  IF vs = <<>> THEN self ELSE pushAll(push(self, Head(vs)), Tail(vs))

\* The results of n successive pops (tests::pop).
RECURSIVE popRun(_, _)
popRun(self, n) ==
  IF n = 0 THEN <<>>
  ELSE LET r == pop(self) IN <<r.ret>> \o popRun(r.self, n - 1)

\* The values a fresh or part-used iterator gives until its first None
\* (the for loop of the doc example and of tests::iter).
RECURSIVE drain(_)
drain(it) ==
  LET r == next(it)
  IN  IF r.ret = None THEN <<>> ELSE r.ret \o drain(r.it)

reverse(s) == [k \in 1..Len(s) |-> s[Len(s) + 1 - k]]

\* Every value pushed so far, in call order.
logVals(lg) == [k \in 1..Len(lg) |-> lg[k].val]

----------------------------------------------------------------------------
(* Properties *)

\* C1: LIFO order.  Every pop on a non-empty stack returns Some(v), v being
\* the most recently pushed value not yet popped (by the push history); and
\* pushing v1..vn on a new stack, then popping n + 1 times, returns
\* Some(vn), ..., Some(v1), None.
C1_LifoOrder ==
  /\ (last.op = "pop" /\ Len(last.pre.items) > 0) =>
        /\ last.ret # None
        /\ last.ret = last.top
  /\ LET vs == logVals(log)
         n  == Len(vs)
     IN  popRun(pushAll(new, vs), n + 1) =
           [k \in 1..(n + 1) |-> IF k <= n THEN Some(vs[n + 1 - k]) ELSE None]

\* A pop returned the older value 42 although 314 was pushed first, after
\* an earlier pop: pushes and pops were interleaved.
C1_Witness ==
  /\ last.op = "pop"
  /\ last.ret = Some(42)
  /\ pops >= 2
  /\ Len(stack.items) >= 1
  /\ stack.items[1] = 314

\* C2: len() is the number of pushes minus the number of pops that returned
\* Some, and is_empty() is true iff len() is 0 (so after n pushes and no pop
\* len() = n and is_empty() is false iff n > 0); the calls report just that.
C2_LenCounts ==
  /\ len(stack) = pushes - pops
  /\ is_empty(stack) <=> (len(stack) = 0)
  /\ (pops = 0) => (len(stack) = pushes /\ (~is_empty(stack) <=> pushes > 0))
  /\ (last.op = "len") => last.ret = Some(pushes - pops)
  /\ (last.op = "is_empty") => last.ret = Some(pushes - pops = 0)

C2_Witness ==
  /\ last.op = "len"
  /\ last.ret = Some(2)
  /\ pushes >= 3
  /\ pops >= 1

\* C3: pop() on an empty stack returns None and changes nothing: the length
\* stays 0 and is_empty() stays true, for any number of repetitions and any
\* history before.
C3_PopEmpty ==
  /\ (last.op = "pop" /\ Len(last.pre.items) = 0) =>
        /\ last.ret = None
        /\ stack = last.pre
        /\ len(stack) = 0
        /\ is_empty(stack)
  /\ is_empty(stack) =>
        \A n \in 1..3 :
          /\ popRun(stack, n) = [k \in 1..n |-> None]
          /\ pop(stack).self = stack

\* The stack was filled and emptied again before the pop on empty.
C3_Witness ==
  /\ last.op = "pop"
  /\ Len(last.pre.items) = 0
  /\ last.ret = None
  /\ pushes >= 2
  /\ pops = pushes

\* C4: push(v) directly followed by pop() returns Some(v) and leaves the
\* stack exactly as it was before the push: same sequence, length and top.
C4_PushPopRoundTrip ==
  /\ (last.op = "pop" /\ last.after # None /\ last.after[1].op = "push") =>
        /\ last.ret = last.after[1].arg
        /\ stack = last.after[1].pre
        /\ len(stack) = len(last.after[1].pre)
        /\ peek(stack) = peek(last.after[1].pre)
  /\ \A v \in Values :
        LET r == pop(push(stack, v))
        IN  /\ r.ret = Some(v)
            /\ r.self = stack
            /\ peek(r.self) = peek(stack)

\* A push of the value already on top, then a pop, on a non-empty stack.
C4_Witness ==
  /\ last.op = "pop"
  /\ last.after # None
  /\ last.after[1].op = "push"
  /\ Len(stack.items) >= 1
  /\ last.ret = Some(stack.items[Len(stack.items)])

C6_OnlyPushPopMutate ==
  /\ (last.op \in {"peek", "is_empty", "len", "iter", "next", "drop"}) =>
        /\ deref(stack) = deref(last.pre)
        /\ len(stack) = len(last.pre)
  /\ (last.op \in {"peek", "is_empty"} /\ last.after # None) =>
        last.ret = last.after[1]
  /\ (stack # last.pre) => last.op \in {"push", "pop"}

\* Two peeks in a row on a stack of two values, with an iterator that has
\* been advanced.
C6_Witness ==
  /\ last.op = "peek"
  /\ last.after = Some(Some(314))
  /\ Len(stack.items) >= 2
  /\ \E i \in IterIds : iters[i] # NoIter /\ Len(yielded[i].out) >= 1

\* C7: an iterator gives the elements top to bottom.  What it has given so
\* far is the start of the reversed sequence; once it has returned None it
\* has given exactly len() values, the reversed sequence, which is also the
\* order in which successive pops return them.
C7_IterTopToBottom ==
  \A i \in IterIds :
    iters[i] # NoIter =>
      LET out == yielded[i].out
          n   == Len(stack.items)
      IN  /\ Len(out) <= n
          /\ out = SubSeq(reverse(stack.items), 1, Len(out))
          /\ yielded[i].done =>
                /\ Len(out) = len(stack)
                /\ out = reverse(deref(stack))
                /\ [k \in 1..n |-> Some(out[k])] = popRun(stack, n)
                /\ popRun(stack, n + 1)[n + 1] = None
          /\ Len(out) = 0 => drain(iters[i]) = reverse(deref(stack))

\* An iterator over three values, not all equal, has returned None.
C7_Witness ==
  \E i \in IterIds :
    /\ iters[i] # NoIter
    /\ yielded[i].done
    /\ Len(yielded[i].out) = 3
    /\ yielded[i].out[1] # yielded[i].out[3]

\* C8: iterators are restartable and independent.  Every iter() starts at
\* the current top whatever the other iterators have done; a next() or a
\* drop of one iterator leaves the position and the given values of every
\* other iterator as they were; and what an iterator will still give
\* depends only on what it has given itself.
C8_ItersIndependent ==
  [][ /\ (last'.op = "iter") =>
            /\ iters'[last'.id].index = Len(stack.items)
            /\ drain(iters'[last'.id]) = reverse(stack.items)
            /\ \A k \in IterIds \ {last'.id} : iters'[k] = iters[k]
      /\ (last'.op \in {"next", "drop"}) =>
            \A k \in IterIds \ {last'.id} :
              /\ iters'[k] = iters[k]
              /\ yielded'[k] = yielded[k]
      /\ \A k \in IterIds :
            iters'[k] # NoIter =>
              yielded'[k].out \o drain(iters'[k]) = reverse(stack'.items)
    ]_vars

\* A second iterator was created after the first had given two values, and
\* has itself given one.
C8_Witness ==
  /\ iters[1] # NoIter
  /\ iters[2] # NoIter
  /\ last.op = "next"
  /\ last.id = 2
  /\ Len(yielded[1].out) = 2
  /\ Len(yielded[2].out) = 1

\* C9: no call panics.  The element access of next() is in bounds, and the
\* index of every iterator stays within 0..len.
C9_NoPanic ==
  /\ ~panicked
  /\ \A i \in IterIds :
        iters[i] # NoIter =>
          /\ 0 <= iters[i].index
          /\ iters[i].index <= Len(iters[i].items)
          /\ ~next(iters[i]).panic
          /\ (iters[i].index > 0) => (iters[i].index - 1 < Len(iters[i].items))

\* next() has been called again on an iterator that had already returned
\* None, on a non-empty stack.
C9_Witness ==
  /\ last.op = "next"
  /\ last.ret = None
  /\ iters[last.id].index = 0
  /\ yielded[last.id].done
  /\ Len(yielded[last.id].out) >= 2

\* C10: the sequence behind deref holds exactly the values pushed and not yet
\* popped, oldest first; the top reported by peek() is its last element; and
\* push(v) appends v at the tail: the length grows by exactly 1 and the
\* earlier elements keep their places.
C10_SequenceInvariant ==
  /\ deref(stack) = logLive(log)
  /\ peek(stack) = (IF Len(deref(stack)) = 0 THEN None
                    ELSE Some(deref(stack)[Len(deref(stack))]))
  /\ (last.op = "push") =>
        LET old == deref(last.pre)
            now == deref(stack)
        IN  /\ Len(now) = Len(old) + 1
            /\ now[Len(now)] = last.arg[1]
            /\ \A k \in 1..Len(old) : now[k] = old[k]
            /\ now = Append(old, last.arg[1])

\* A push of 42 on a stack holding 314 at the bottom, after a pop.
C10_Witness ==
  /\ last.op = "push"
  /\ last.arg = Some(42)
  /\ Len(stack.items) >= 2
  /\ stack.items[1] = 314
  /\ pops >= 1

\* The state of the two-state machine a stack is in, read through is_empty().
stateOf(self) == IF is_empty(self) THEN "Empty" ELSE "NonEmpty"

\* C12: keyed on is_empty(), the stack is a machine of two states, Empty
\* and NonEmpty.  push ends in NonEmpty from either; pop from NonEmpty ends
\* in Empty exactly when the length before it was 1; pop from Empty stays
\* Empty and returns None; no other call changes the state.
C12_TwoStateMachine ==
  /\ (last.op = "push") => stateOf(stack) = "NonEmpty"
  /\ (last.op = "pop" /\ stateOf(last.pre) = "NonEmpty") =>
        /\ (stateOf(stack) = "Empty") <=> (len(last.pre) = 1)
        /\ (stateOf(stack) = "NonEmpty") <=> (len(last.pre) > 1)
        /\ last.ret # None
  /\ (last.op = "pop" /\ stateOf(last.pre) = "Empty") =>
        /\ stateOf(stack) = "Empty"
        /\ last.ret = None
  /\ (last.op \notin {"push", "pop"}) => stateOf(stack) = stateOf(last.pre)
  /\ (stateOf(stack) = "Empty") <=> (len(stack) = 0)
  /\ (last.op = "new") => stateOf(stack) = "Empty"

\* A pop took a stack of two values to NonEmpty, after the stack had been
\* emptied once before.
C12_Witness ==
  /\ last.op = "pop"
  /\ len(last.pre) = 2
  /\ stateOf(stack) = "NonEmpty"
  /\ pops >= 2

\* C13: pop() on a non-empty stack removes the tail element only: the length
\* goes down by exactly 1 and what remains is the former sequence without
\* its last element, values and order unchanged.
C13_PopRemovesTailOnly ==
  (last.op = "pop" /\ Len(deref(last.pre)) > 0) =>
     LET old == deref(last.pre)
         now == deref(stack)
     IN  /\ Len(now) = Len(old) - 1
         /\ \A k \in 1..Len(now) : now[k] = old[k]
         /\ now = SubSeq(old, 1, Len(old) - 1)
         /\ last.ret = Some(old[Len(old)])

\* A pop on a stack of three values whose bottom and top differ.
C13_Witness ==
  /\ last.op = "pop"
  /\ Len(deref(last.pre)) = 3
  /\ deref(last.pre)[1] # deref(last.pre)[3]
  /\ Len(deref(stack)) = 2

\* C16: a StackIterator is fused and monotone.  Its index is the length of
\* the stack when iter() creates it, never goes up, goes down by exactly 1
\* on every next() that returns Some, stays within 0..len, and once next()
\* has returned None every later next() returns None with the index still 0.
C16_IterFusedMonotone ==
  [][ /\ (last'.op = "iter") =>
            iters'[last'.id].index = Len(stack.items)
      /\ (last'.op = "next") =>
            LET i == last'.id
            IN  /\ (last'.ret # None) =>
                      /\ iters[i].index > 0
                      /\ iters'[i].index = iters[i].index - 1
                /\ (last'.ret = None) =>
                      /\ iters[i].index = 0
                      /\ iters'[i].index = 0
                /\ yielded[i].done => last'.ret = None
      /\ \A k \in IterIds :
            /\ (iters[k] # NoIter /\ iters'[k] # NoIter) =>
                  iters'[k].index <= iters[k].index
            /\ (iters'[k] # NoIter) =>
                  /\ iters'[k].index \in 0..Len(stack'.items)
                  /\ yielded'[k].done =>
                        /\ iters'[k].index = 0
                        /\ next(iters'[k]).ret = None
                        /\ next(iters'[k]).it.index = 0
    ]_vars

\* An iterator over two values has given both, returned None, and then the
\* other iterator was asked once.
C16_Witness ==
  /\ iters[1] # NoIter
  /\ yielded[1].done
  /\ Len(yielded[1].out) = 2
  /\ iters[1].index = 0
  /\ last.op = "next"
  /\ last.id = 2

\* The whole of LinkedList::len: its loop run to the end, or -1 when the loop
\* has not ended after one test more than there are nodes.
RECURSIVE len_loop(_, _, _, _)
len_loop(self, cur, sz, fuel) ==
  LET r == len_step(self, cur, sz)
  IN  IF r.done THEN r.size
      ELSE IF fuel = 0 THEN -1
      ELSE len_loop(self, r.current, r.size, fuel - 1)

list_len(self) == len_loop(self, self.head, 0, Len(self.nodes) + 1)

\* The text forms of the values of vs, one after the other.
RECURSIVE concatText(_)
concatText(vs) ==
  IF vs = <<>> THEN <<>> ELSE to_text(Head(vs)) \o concatText(Tail(vs))

\* C11: a new LinkedList is empty with len() 0; after any sequence of
\* prepend and append calls len() is the number of calls, every call raises
\* len() by exactly 1, and is_empty() is true iff len() is 0.
C11_ListLen ==
  /\ (llast.op = "new") => (list_is_empty(list) /\ list_len(list) = 0)
  /\ (pc # "append") =>
        /\ list_len(list) = calls
        /\ list_is_empty(list) <=> (list_len(list) = 0)
  /\ (llast.op \in {"prepend", "append"}) =>
        list_len(list) = list_len(llast.pre) + 1
  /\ (llast.op = "len") => llast.retLen = Some(calls)
  /\ (llast.op = "is_empty") => llast.retEmpty = Some(calls = 0)

\* len() returned 3 for a list built by an append or prepend, then a
\* prepend, then an append.
C11_Witness ==
  /\ llast.op = "len"
  /\ llast.retLen = Some(3)
  /\ list.head = 2
  /\ list.nodes[1].next = 3

\* C14: prepend(v) on a list with the values L from head to tail gives
\* <v> followed by L, and append(v) gives L followed by <v>, an empty L
\* included; the values already there keep their order.
C14_InsertPosition ==
  /\ (llast.op = "prepend") =>
        elems(list) = <<llast.arg[1]>> \o elems(llast.pre)
  /\ (llast.op = "append") =>
        /\ elems(list) = elems(llast.pre) \o <<llast.arg[1]>>
        /\ Len(elems(list)) = Len(elems(llast.pre)) + 1
        /\ \A k \in 1..Len(elems(llast.pre)) :
              elems(list)[k] = elems(llast.pre)[k]
  /\ (llast.op = "append" /\ llast.pre.head = Null) =>
        list = prepend(llast.pre, llast.arg[1])

\* An append on a list of two values whose head was put there by prepend.
C14_Witness ==
  /\ llast.op = "append"
  /\ Len(elems(llast.pre)) = 2
  /\ llast.pre.head = 2
  /\ elems(list)[1] # elems(list)[3]

acyclic(self) ==
  LET c == chainOf(self)
  IN  /\ Len(c) = Len(self.nodes)
      /\ \A j, k \in 1..Len(c) : (j # k) => (c[j] # c[k])
      /\ (Len(c) > 0) => self.nodes[c[Len(c)]].next = Null

\* C17: the loops of len, append and fmt end on every list made from new()
\* by prepend and append: such a list is a finite chain without a cycle that
\* ends in None, no loop makes more tests than there are nodes plus one, and
\* every call that has started returns.  append puts in exactly one node,
\* at the first node whose next is None.
C17_LoopsTerminate ==
  /\ [](acyclic(list))
  /\ []((pc # "idle") => (steps <= Len(list.nodes)))
  /\ []((llast.op = "append" /\ llast.pre.head # Null) =>
          LET c == chainOf(llast.pre)
              t == c[Len(c)]
              n == Len(llast.pre.nodes)
          IN  /\ Len(list.nodes) = n + 1
              /\ list.head = llast.pre.head
              /\ llast.pre.nodes[t].next = Null
              /\ \A k \in 1..(Len(c) - 1) : llast.pre.nodes[c[k]].next # Null
              /\ list.nodes[t].next = n + 1
              /\ list.nodes[n + 1] = [value |-> llast.arg[1], next |-> Null]
              /\ \A k \in 1..n :
                    /\ list.nodes[k].value = llast.pre.nodes[k].value
                    /\ (k # t) => list.nodes[k] = llast.pre.nodes[k]
              /\ steps = Len(c))
  /\ ((pc # "idle") ~> (pc = "idle"))

\* An append has walked over two nodes and returned.
C17_Witness ==
  /\ llast.op = "append"
  /\ pc = "idle"
  /\ steps = 2
  /\ Len(list.nodes) = 3

====
